---- MODULE Spec2Model ----
(***************************************************************************)
(* Model of packages/core/src/core/openaiCompatible.ts and                 *)
(* contentGenerator.ts: the OpenAI-compatible content generator, the       *)
(* configuration resolver createContentGeneratorConfig and the factory      *)
(* createContentGenerator.                                                  *)
(*                                                                         *)
(* JavaScript values are tagged records [t |-> type, v |-> payload].       *)
(* Strings are sequences of characters, so that template literals, join    *)
(* and replace are computed and not assumed.                               *)
(***************************************************************************)
EXTENDS Integers, Sequences, FiniteSets, TLC

VARIABLES
  \* --- partsToText on one Content's parts
  parts, partsText, partsPc,
  \* --- convertContentsToOpenAIMessages on a request's contents
  contents, messages, msgPc,
  \* --- fromOpenAIChatCompletion on one parsed wire body
  data, dataModel, translated, respPc,
  \* --- createContentGeneratorConfig / createContentGenerator
  env, gcConfig, authType, cgConfig, generator, cfgPc,
  \* --- calls on one adapter instance
  pc, kind, req, wireCalls, wireBody, resp, outcome, emitted

partVars == <<parts, partsText, partsPc>>
msgVars  == <<contents, messages, msgPc>>
respVars == <<data, dataModel, translated, respPc>>
cfgVars  == <<env, gcConfig, authType, cgConfig, generator, cfgPc>>
callVars == <<pc, kind, req, wireCalls, wireBody, resp, outcome, emitted>>
vars     == <<partVars, msgVars, respVars, cfgVars, callVars>>

notPartVars == <<msgVars, respVars, cfgVars, callVars>>
notMsgVars  == <<partVars, respVars, cfgVars, callVars>>
notRespVars == <<partVars, msgVars, cfgVars, callVars>>
notCfgVars  == <<partVars, msgVars, respVars, callVars>>
notCallVars == <<partVars, msgVars, respVars, cfgVars>>

----------------------------------------------------------------------------
(* JavaScript values *)

Undefined == [t |-> "undefined"]
Null      == [t |-> "null"]
Str(s)    == [t |-> "string", v |-> s]
Num(n)    == [t |-> "number", v |-> n]
Obj(f)    == [t |-> "object", v |-> f]
Arr(s)    == [t |-> "array", v |-> s]
Bool(b)   == [t |-> "boolean", v |-> b]

EmptyFields == [f \in {} |-> Undefined]

\* Boolean(x), as used by filter(Boolean), `x ? a : b`, `x || y`, `x && y`
Truthy(x) ==
  CASE x.t = "undefined" -> FALSE
    [] x.t = "null"      -> FALSE
    [] x.t = "string"    -> x.v # <<>>
    [] x.t = "number"    -> x.v # 0
    [] x.t = "boolean"   -> x.v
    [] OTHER             -> TRUE

\* the test of `??` and `?.`
Nullish(x) == x.t \in {"undefined", "null"}

\* x ?? y
Coalesce(x, y) == IF Nullish(x) THEN y ELSE x

\* x || y
OrElse(x, y) == IF Truthy(x) THEN x ELSE y

\* x.f on a non-nullish x (a missing property reads as undefined)
Get(x, f) ==
  IF x.t = "object" /\ f \in DOMAIN x.v THEN x.v[f] ELSE Undefined

\* x?.f
OptGet(x, f) == IF Nullish(x) THEN Undefined ELSE Get(x, f)

\* x?.[i] with a 0-based index
OptIndex(x, i) ==
  IF Nullish(x) THEN Undefined
  ELSE IF x.t = "array" /\ (i + 1) \in DOMAIN x.v THEN x.v[i + 1]
  ELSE Undefined

NL == "\n"

----------------------------------------------------------------------------
(* partsToText and convertContentsToOpenAIMessages *)

\* (p) => (typeof p === 'string' ? p : (p as any).text ?? '')
PartText(p) ==
  IF p.t = "string" THEN p ELSE Coalesce(Get(p, "text"), Str(<<>>))

\* Array.prototype.join on an array of strings
RECURSIVE Join(_, _)
Join(strs, sep) ==
  IF Len(strs) = 0 THEN <<>>
  ELSE IF Len(strs) = 1 THEN strs[1].v
  ELSE strs[1].v \o sep \o Join(Tail(strs), sep)

partsToTextNoFilter(ps) ==
  Str(Join([i \in 1..Len(ps) |-> PartText(ps[i])], <<NL>>))

partsToText(ps) ==
  Str(Join(SelectSeq([i \in 1..Len(ps) |-> PartText(ps[i])], Truthy), <<NL>>))

\* c.role === 'model' ? 'assistant' : 'user'
WireRoleUserOnly(c) == "user"

ROLE_MODEL == <<"m","o","d","e","l">>
ROLE_USER  == <<"u","s","e","r">>

WireRole(c) ==
  LET r == Get(c, "role")
  IN IF r.t = "string" /\ r.v = ROLE_MODEL THEN "assistant" ELSE "user"

convertContentsToOpenAIMessages(cs) ==
  [i \in 1..Len(cs) |->
     [role    |-> WireRole(cs[i]),
      content |-> partsToText(Coalesce(Get(cs[i], "parts"), Arr(<<>>)).v)]]

----------------------------------------------------------------------------
(* fromOpenAIChatCompletion *)

\* data?.choices?.[0]?.message?.content ?? ''
FirstChoiceText(d) ==
  Coalesce(
    OptGet(OptGet(OptIndex(OptGet(d, "choices"), 0), "message"), "content"),
    Str(<<>>))

\* promptTokenCount: data?.usage?.prompt_tokens, ...
UsageFieldOrZero(d, f) == Coalesce(OptGet(OptGet(d, "usage"), f), Num(0))

UsageField(d, f) == OptGet(OptGet(d, "usage"), f)

fromOpenAIChatCompletion(d, model) ==
  LET text == FirstChoiceText(d)
      content == [role  |-> ROLE_MODEL,
                  parts |-> IF Truthy(text) THEN <<[text |-> text]>> ELSE <<>>]
  IN [modelVersion  |-> model,
      candidates    |-> <<[content |-> content, index |-> 0]>>,
      usageMetadata |->
        [promptTokenCount     |-> UsageField(d, "prompt_tokens"),
         candidatesTokenCount |-> UsageField(d, "completion_tokens"),
         totalTokenCount      |-> UsageField(d, "total_tokens")]]

----------------------------------------------------------------------------
(* AuthType, createContentGeneratorConfig *)

LOGIN_WITH_GOOGLE == Str(<<"oauth-personal">>)
USE_GEMINI        == Str(<<"gemini-api-key">>)
USE_VERTEX_AI     == Str(<<"vertex-ai">>)
CLOUD_SHELL       == Str(<<"cloud-shell">>)
USE_OPENAI        == Str(<<"openai">>)
USE_OPENROUTER    == Str(<<"openrouter">>)
USE_DEEPSEEK      == Str(<<"deepseek">>)
USE_GLM           == Str(<<"glm">>)

AuthTypes ==
  {LOGIN_WITH_GOOGLE, USE_GEMINI, USE_VERTEX_AI, CLOUD_SHELL,
   USE_OPENAI, USE_OPENROUTER, USE_DEEPSEEK, USE_GLM}

OpenAIAuthTypes == {USE_OPENAI, USE_OPENROUTER, USE_DEEPSEEK, USE_GLM}

DEFAULT_GEMINI_MODEL == <<"DEFAULT_GEMINI_MODEL">>
DEFAULT_OPENAI_BASE_URL     == <<"https:", "/", "/", "api.openai.com", "/", "v1">>
DEFAULT_OPENROUTER_BASE_URL == <<"https:", "/", "/", "openrouter.ai", "/", "api", "/", "v1">>
DEFAULT_DEEPSEEK_BASE_URL   == <<"https:", "/", "/", "api.deepseek.com">>
DEFAULT_GLM_BASE_URL        ==
  <<"https:", "/", "/", "open.bigmodel.cn", "/", "api", "/", "paas", "/", "v4">>

EnvVars ==
  {"GEMINI_API_KEY", "GOOGLE_API_KEY", "GOOGLE_CLOUD_PROJECT",
   "GOOGLE_CLOUD_LOCATION", "OPENAI_API_KEY", "OPENROUTER_API_KEY",
   "DEEPSEEK_API_KEY", "GLM_API_KEY", "ZHIPUAI_API_KEY", "OPENAI_BASE_URL",
   "OPENROUTER_BASE_URL", "DEEPSEEK_BASE_URL", "GLM_BASE_URL"}

\* o.f = val on an object literal with optional fields
With(o, f, val) ==
  Obj([k \in (DOMAIN o.v) \cup {f} |-> IF k = f THEN val ELSE o.v[k]])

\* authType === AuthType.X && xApiKey
BranchTakenWithoutKey(at, sel, key) == at = sel

BranchTaken(at, sel, key) == at = sel /\ Truthy(key)

\* the body of one OpenAI-wire-compatible branch
ProviderConfig(cfg, key, url, provider) ==
  With(With(With(cfg, "apiKey", key), "baseUrl", url), "provider", provider)

\* e: process.env; at: authType; cm: config.getModel(); px: config.getProxy()
createContentGeneratorConfig(e, at, cm, px) ==
  LET geminiApiKey        == OrElse(e["GEMINI_API_KEY"], Undefined)
      googleApiKey        == OrElse(e["GOOGLE_API_KEY"], Undefined)
      googleCloudProject  == OrElse(e["GOOGLE_CLOUD_PROJECT"], Undefined)
      googleCloudLocation == OrElse(e["GOOGLE_CLOUD_LOCATION"], Undefined)
      openaiApiKey        == OrElse(e["OPENAI_API_KEY"], Undefined)
      openrouterApiKey    == OrElse(e["OPENROUTER_API_KEY"], Undefined)
      deepseekApiKey      == OrElse(e["DEEPSEEK_API_KEY"], Undefined)
      glmApiKey           ==
        OrElse(OrElse(e["GLM_API_KEY"], e["ZHIPUAI_API_KEY"]), Undefined)
      openaiBaseUrl       ==
        OrElse(e["OPENAI_BASE_URL"], Str(DEFAULT_OPENAI_BASE_URL))
      openrouterBaseUrl   ==
        OrElse(e["OPENROUTER_BASE_URL"], Str(DEFAULT_OPENROUTER_BASE_URL))
      deepseekBaseUrl     ==
        OrElse(e["DEEPSEEK_BASE_URL"], Str(DEFAULT_DEEPSEEK_BASE_URL))
      glmBaseUrl          == OrElse(e["GLM_BASE_URL"], Str(DEFAULT_GLM_BASE_URL))
      effectiveModel      == OrElse(cm, Str(DEFAULT_GEMINI_MODEL))
      base == Obj([model |-> effectiveModel, authType |-> at, proxy |-> px])
  IN IF at = LOGIN_WITH_GOOGLE \/ at = CLOUD_SHELL THEN base
     ELSE IF at = USE_GEMINI /\ Truthy(geminiApiKey)
       THEN With(With(base, "apiKey", geminiApiKey), "vertexai", Bool(FALSE))
     ELSE IF at = USE_VERTEX_AI
             /\ (Truthy(googleApiKey)
                 \/ (Truthy(googleCloudProject) /\ Truthy(googleCloudLocation)))
       THEN With(With(base, "apiKey", googleApiKey), "vertexai", Bool(TRUE))
     ELSE IF BranchTaken(at, USE_OPENAI, openaiApiKey)
       THEN ProviderConfig(base, openaiApiKey, openaiBaseUrl, USE_OPENAI)
     ELSE IF BranchTaken(at, USE_OPENROUTER, openrouterApiKey)
       THEN ProviderConfig(base, openrouterApiKey, openrouterBaseUrl,
                           USE_OPENROUTER)
     ELSE IF BranchTaken(at, USE_DEEPSEEK, deepseekApiKey)
       THEN ProviderConfig(base, deepseekApiKey, deepseekBaseUrl, USE_DEEPSEEK)
     ELSE IF BranchTaken(at, USE_GLM, glmApiKey)
       THEN ProviderConfig(base, glmApiKey, glmBaseUrl, USE_GLM)
     ELSE base

----------------------------------------------------------------------------
(* OpenAICompatibleContentGenerator constructor, createContentGenerator *)

\* decimal digits of a non-negative integer, as `${n}` prints them
DigitChar(d) ==
  CASE d = 0 -> "0" [] d = 1 -> "1" [] d = 2 -> "2" [] d = 3 -> "3"
    [] d = 4 -> "4" [] d = 5 -> "5" [] d = 6 -> "6" [] d = 7 -> "7"
    [] d = 8 -> "8" [] d = 9 -> "9"

RECURSIVE Digits(_)
Digits(n) == IF n < 10 THEN <<DigitChar(n)>>
             ELSE Digits(n \div 10) \o <<DigitChar(n % 10)>>

\* `${x}` in a template literal
Template(x) ==
  CASE x.t = "string"    -> x.v
    [] x.t = "number"    -> Digits(x.v)
    [] x.t = "undefined" -> <<"undefined">>
    [] x.t = "null"      -> <<"null">>
    [] OTHER             -> <<"[object Object]">>

\* s.replace(/\/$/, '')
StripTrailingSlash(s) ==
  IF Len(s) > 0 /\ s[Len(s)] = "/" THEN SubSeq(s, 1, Len(s) - 1) ELSE s

Thrown(name, message) ==
  [status |-> "threw", error |-> [name |-> name, message |-> message]]

Returned(value) == [status |-> "returned", value |-> value]

\* new OpenAICompatibleContentGenerator(opts): reading .replace of an absent
\* baseUrl throws a TypeError before any field is set
NewOpenAICompatibleContentGenerator(opts) ==
  IF Nullish(opts.baseUrl)
    THEN Thrown("TypeError",
                <<"Cannot read properties of ">> \o Template(opts.baseUrl)
                  \o <<" (reading 'replace')">>)
  ELSE Returned(
    [backend      |-> "OpenAICompatibleContentGenerator",
     baseUrl      |-> StripTrailingSlash(Template(opts.baseUrl)),
     apiKey       |-> opts.apiKey,
     defaultModel |-> opts.model,
     headers      |->
       [ContentType   |-> <<"application/json">>,
        Authorization |-> <<"Bearer ">> \o Template(opts.apiKey),
        UserAgent     |-> opts.httpHeaders]])

UnsupportedAuthType(at) ==
  Thrown("Error",
         <<"Error creating contentGenerator: ", "Unsupported authType: ">>
           \o Template(at))

LoggingContentGenerator(wrapped) ==
  [wrapper |-> "LoggingContentGenerator", wrapped |-> wrapped]

USER_AGENT == <<"GeminiCLI/">>

createContentGenerator(config) ==
  LET at == Get(config, "authType")
  IN IF at = LOGIN_WITH_GOOGLE \/ at = CLOUD_SHELL
       THEN Returned(LoggingContentGenerator(
              [backend |-> "CodeAssist", authType |-> at]))
     ELSE IF at = USE_GEMINI \/ at = USE_VERTEX_AI
       THEN Returned(LoggingContentGenerator(
              [backend  |-> "GoogleGenAI.models",
               apiKey   |-> IF Get(config, "apiKey") = Str(<<>>)
                              THEN Undefined ELSE Get(config, "apiKey"),
               vertexai |-> Get(config, "vertexai")]))
     ELSE IF at \in OpenAIAuthTypes
       THEN LET provider == NewOpenAICompatibleContentGenerator(
                              [baseUrl     |-> Get(config, "baseUrl"),
                               apiKey      |-> Get(config, "apiKey"),
                               model       |-> Get(config, "model"),
                               httpHeaders |-> USER_AGENT])
            IN IF provider.status = "threw" THEN provider
               ELSE Returned(LoggingContentGenerator(provider.value))
     ELSE UnsupportedAuthType(at)

----------------------------------------------------------------------------
(* Calls on one OpenAICompatibleContentGenerator instance *)

NumCalls == 2
CallIds == 1..NumCalls

None == [t |-> "none"]

\* the adapter the calls share: its fields are readonly after construction
Self ==
  NewOpenAICompatibleContentGenerator(
    [baseUrl     |-> Str(<<"http:", "/", "/", "host", "/", "v1", "/">>),
     apiKey      |-> Str(<<"sk">>),
     model       |-> Str(<<"default-model">>),
     httpHeaders |-> USER_AGENT]).value

TextPart(s) == Obj([text |-> Str(s)])
MediaPart   == Obj([inlineData |-> Str(<<"bytes">>)])

UserTurn ==
  Obj([role  |-> Str(ROLE_USER),
       parts |-> Arr(<<TextPart(<<"a">>), TextPart(<<>>), TextPart(<<"b">>)>>)])
ModelTurn ==
  Obj([role |-> Str(ROLE_MODEL), parts |-> Arr(<<MediaPart, TextPart(<<"c">>)>>)])

\* GenerateContentParameters the callers pass
Requests ==
  {Obj([model    |-> Str(<<"m1">>),
        contents |-> Arr(<<UserTurn, ModelTurn>>),
        config   |-> Obj([temperature |-> Num(1), tools |-> Arr(<<Str(<<"fn">>)>>)])]),
   Obj([contents |-> UserTurn])}

\* toContents: a single Content or a sequence of them, as a sequence
toContents(x) == IF x.t = "array" THEN x.v ELSE <<x>>

\* what the backend can answer: status, raw body text, and the body parsed
\* as JSON (None when the text is not JSON, so resp.json() rejects)
WireResponses ==
  {[status |-> 401, text |-> <<"invalid", " ", "key">>, json |-> None],
   [status |-> 500, text |-> <<>>, json |-> None],
   [status |-> 200, text |-> <<"{...}">>,
    json |-> Obj([choices |-> Arr(<<Obj([message |-> Obj([content |-> Str(<<"hi">>)])])>>),
                  usage   |-> Obj([prompt_tokens |-> Num(3), total_tokens |-> Num(5)])])],
   [status |-> 200, text |-> <<"{}">>, json |-> Obj(EmptyFields)],
   [status |-> 204, text |-> <<>>, json |-> None]}

\* Response.ok
Ok(w) == w.status >= 200 /\ w.status <= 299

\* req.model || this.defaultModel
ResolvedModel(r) == OrElse(Get(r, "model"), Self.defaultModel)

\* tools: this.convertTools(req.config?.tools)
convertTools(tools) == Undefined

\* the arguments of fetch in generateContent
WireRequest(r) ==
  [url     |-> Self.baseUrl \o <<"/", "chat", "/", "completions">>,
   method  |-> "POST",
   headers |-> Self.headers,
   body    |->
     [model       |-> ResolvedModel(r),
      messages    |-> convertContentsToOpenAIMessages(toContents(Get(r, "contents"))),
      temperature |-> OptGet(Get(r, "config"), "temperature"),
      top_p       |-> OptGet(Get(r, "config"), "topP"),
      tools       |-> convertTools(OptGet(Get(r, "config"), "tools")),
      stream      |-> FALSE]]

\* the number of outbound calls after one more fetch
FetchTwice(n) == n + 2

Fetched(n) == n + 1

\* `OpenAI-compatible error ${resp.status}: ${text}`
ErrorMessageStatusOnly(status, text) ==
  <<"OpenAI-compatible error ">> \o Digits(status)

ErrorMessage(status, text) ==
  <<"OpenAI-compatible error ">> \o Digits(status) \o <<": ">> \o text

\* what generateContent settles with once the response w has arrived
GenerateContentResult(r, w) ==
  IF ~Ok(w) THEN Thrown("Error", ErrorMessage(w.status, w.text))
  ELSE IF w.json = None THEN Thrown("SyntaxError", <<"Unexpected end of JSON input">>)
  ELSE Returned(fromOpenAIChatCompletion(w.json, ResolvedModel(r)))

\* yield await self.generateContent(...)
YieldTwice(sofar, value) == sofar \o <<value, value>>

Yield(sofar, value) == Append(sofar, value)

\* countTokens / embedContent return values
CountTokensEstimate == [totalTokens |-> 1]

CountTokensResult == [totalTokens |-> 0]

EmbedContentResult == [embeddings |-> <<>>]

CallsIdle ==
  /\ pc = [c \in CallIds |-> "idle"]
  /\ kind = [c \in CallIds |-> "none"]
  /\ req = [c \in CallIds |-> None]
  /\ wireCalls = [c \in CallIds |-> 0]
  /\ wireBody = [c \in CallIds |-> None]
  /\ resp = [c \in CallIds |-> None]
  /\ outcome = [c \in CallIds |-> None]
  /\ emitted = [c \in CallIds |-> <<>>]

\* generateContent(req): runs synchronously up to `await fetch(...)`
CallGenerateContent(c, r) ==
  /\ UNCHANGED notCallVars
  /\ pc[c] = "idle"
  /\ kind' = [kind EXCEPT ![c] = "generateContent"]
  /\ req' = [req EXCEPT ![c] = r]
  /\ wireCalls' = [wireCalls EXCEPT ![c] = Fetched(@)]
  /\ wireBody' = [wireBody EXCEPT ![c] = WireRequest(r)]
  /\ pc' = [pc EXCEPT ![c] = "fetching"]
  /\ UNCHANGED <<resp, outcome, emitted>>

\* generateContentStream(req): returns gen(this); the body has not run yet
CallGenerateContentStream(c, r) ==
  /\ UNCHANGED notCallVars
  /\ pc[c] = "idle"
  /\ kind' = [kind EXCEPT ![c] = "generateContentStream"]
  /\ req' = [req EXCEPT ![c] = r]
  /\ pc' = [pc EXCEPT ![c] = "created"]
  /\ UNCHANGED <<wireCalls, wireBody, resp, outcome, emitted>>

\* the consumer's first next(): the generator body calls generateContent
StreamNextFirst(c) ==
  /\ UNCHANGED notCallVars
  /\ pc[c] = "created"
  /\ wireCalls' = [wireCalls EXCEPT ![c] = Fetched(@)]
  /\ wireBody' = [wireBody EXCEPT ![c] = WireRequest(req[c])]
  /\ pc' = [pc EXCEPT ![c] = "fetching"]
  /\ UNCHANGED <<kind, req, resp, outcome, emitted>>

\* the backend answers the pending fetch of call c
WireRespond(c, w) ==
  /\ UNCHANGED notCallVars
  /\ pc[c] = "fetching"
  /\ resp' = [resp EXCEPT ![c] = w]
  /\ pc' = [pc EXCEPT ![c] = "responded"]
  /\ UNCHANGED <<kind, req, wireCalls, wireBody, outcome, emitted>>

\* the pending fetch rejects (no response at all)
WireFail(c) ==
  /\ UNCHANGED notCallVars
  /\ pc[c] = "fetching"
  /\ outcome' = [outcome EXCEPT ![c] = Thrown("TypeError", <<"fetch failed">>)]
  /\ pc' = [pc EXCEPT ![c] = "done"]
  /\ UNCHANGED <<kind, req, wireCalls, wireBody, resp, emitted>>

\* generateContent after the response: !resp.ok throws, else the body is
\* parsed and translated; awaited directly by the caller
SettleGenerateContent(c) ==
  /\ UNCHANGED notCallVars
  /\ pc[c] = "responded"
  /\ kind[c] = "generateContent"
  /\ outcome' = [outcome EXCEPT ![c] = GenerateContentResult(req[c], resp[c])]
  /\ pc' = [pc EXCEPT ![c] = "done"]
  /\ UNCHANGED <<kind, req, wireCalls, wireBody, resp, emitted>>

\* the same inside the generator: a result is yielded, an error ends the
\* generator by rejecting the pending next()
SettleStream(c) ==
  /\ UNCHANGED notCallVars
  /\ pc[c] = "responded"
  /\ kind[c] = "generateContentStream"
  /\ LET res == GenerateContentResult(req[c], resp[c])
     IN IF res.status = "returned"
          THEN /\ emitted' = [emitted EXCEPT ![c] = Yield(@, res.value)]
               /\ pc' = [pc EXCEPT ![c] = "yielded"]
               /\ UNCHANGED outcome
          ELSE /\ outcome' = [outcome EXCEPT ![c] = res]
               /\ pc' = [pc EXCEPT ![c] = "done"]
               /\ UNCHANGED emitted
  /\ UNCHANGED <<kind, req, wireCalls, wireBody, resp>>

\* the consumer's next() after the element: the generator body ends
StreamNextAfterYield(c) ==
  /\ UNCHANGED notCallVars
  /\ pc[c] = "yielded"
  /\ outcome' = [outcome EXCEPT ![c] = Returned(Undefined)]
  /\ pc' = [pc EXCEPT ![c] = "done"]
  /\ UNCHANGED <<kind, req, wireCalls, wireBody, resp, emitted>>

CallCountTokens(c, r) ==
  /\ UNCHANGED notCallVars
  /\ pc[c] = "idle"
  /\ kind' = [kind EXCEPT ![c] = "countTokens"]
  /\ req' = [req EXCEPT ![c] = r]
  /\ outcome' = [outcome EXCEPT ![c] = Returned(CountTokensResult)]
  /\ pc' = [pc EXCEPT ![c] = "done"]
  /\ UNCHANGED <<wireCalls, wireBody, resp, emitted>>

CallEmbedContent(c, r) ==
  /\ UNCHANGED notCallVars
  /\ pc[c] = "idle"
  /\ kind' = [kind EXCEPT ![c] = "embedContent"]
  /\ req' = [req EXCEPT ![c] = r]
  /\ outcome' = [outcome EXCEPT ![c] = Returned(EmbedContentResult)]
  /\ pc' = [pc EXCEPT ![c] = "done"]
  /\ UNCHANGED <<wireCalls, wireBody, resp, emitted>>

\* the caller is finished with call c and issues a new one later
NextCall(c) ==
  /\ UNCHANGED notCallVars
  /\ pc[c] = "done"
  /\ pc' = [pc EXCEPT ![c] = "idle"]
  /\ kind' = [kind EXCEPT ![c] = "none"]
  /\ req' = [req EXCEPT ![c] = None]
  /\ wireCalls' = [wireCalls EXCEPT ![c] = 0]
  /\ wireBody' = [wireBody EXCEPT ![c] = None]
  /\ resp' = [resp EXCEPT ![c] = None]
  /\ outcome' = [outcome EXCEPT ![c] = None]
  /\ emitted' = [emitted EXCEPT ![c] = <<>>]

----------------------------------------------------------------------------
(* Inputs of the translation functions *)

SeqsUpTo(S, n) == UNION {[1..k -> S] : k \in 0..n}

\* o with field f set unless val is None
WithOpt(o, f, val) == IF val = None THEN o ELSE With(o, f, val)

MaxParts == 3

PartValues ==
  {TextPart(<<"a">>), TextPart(<<"b">>), TextPart(<<>>),
   TextPart(<<"a", NL, "b">>), MediaPart, Str(<<"s">>)}

PartsIdle == parts = <<>> /\ partsText = None /\ partsPc = "off"

PartsInit ==
  /\ parts \in SeqsUpTo(PartValues, MaxParts)
  /\ partsText = None
  /\ partsPc = "ready"

PartsToText ==
  /\ UNCHANGED notPartVars
  /\ partsPc = "ready"
  /\ partsText' = partsToText(parts)
  /\ partsPc' = "done"
  /\ UNCHANGED parts

MaxContents == 2

RoleValues ==
  {None, Str(ROLE_MODEL), Str(ROLE_USER),
   Str(<<"a","s","s","i","s","t","a","n","t">>), Str(<<"M","o","d","e","l">>)}

PartsValues ==
  {None, Arr(<<>>), Arr(<<TextPart(<<"a">>)>>),
   Arr(<<TextPart(<<"a">>), TextPart(<<>>), TextPart(<<"b">>)>>)}

ContentValues ==
  {WithOpt(WithOpt(Obj(EmptyFields), "role", r), "parts", ps) :
     r \in RoleValues, ps \in PartsValues}

MessagesIdle == contents = <<>> /\ messages = <<>> /\ msgPc = "off"

MessagesInit ==
  /\ contents \in SeqsUpTo(ContentValues, MaxContents)
  /\ messages = <<>>
  /\ msgPc = "ready"

ConvertContents ==
  /\ UNCHANGED notMsgVars
  /\ msgPc = "ready"
  /\ messages' = convertContentsToOpenAIMessages(contents)
  /\ msgPc' = "done"
  /\ UNCHANGED contents

MaxChoices == 2
MaxTokens == 1

MessageValues ==
  {None, Obj(EmptyFields), Obj([content |-> Null]), Obj([content |-> Str(<<>>)]),
   Obj([content |-> Str(<<"hi">>)]), Obj([content |-> Str(<<"yo">>)])}

ChoiceValues ==
  {Null} \cup {WithOpt(Obj(EmptyFields), "message", m) : m \in MessageValues}

TokenValues == {None} \cup {Num(n) : n \in 0..MaxTokens}

UsageValues ==
  {None, Null} \cup
  {WithOpt(WithOpt(WithOpt(Obj(EmptyFields), "prompt_tokens", a),
                   "completion_tokens", b), "total_tokens", c) :
     a \in TokenValues, b \in TokenValues, c \in TokenValues}

\* what resp.json() can resolve to
DataValues ==
  {Null} \cup
  {WithOpt(WithOpt(Obj(EmptyFields), "choices", cs), "usage", u) :
     cs \in {None, Null} \cup {Arr(x) : x \in SeqsUpTo(ChoiceValues, MaxChoices)},
     u \in UsageValues}

ResponseIdle ==
  data = None /\ dataModel = None /\ translated = None /\ respPc = "off"

ResponseInit ==
  /\ data \in DataValues
  /\ dataModel \in {Str(<<"m1">>), Self.defaultModel}
  /\ translated = None
  /\ respPc = "ready"

Translate ==
  /\ UNCHANGED notRespVars
  /\ respPc = "ready"
  /\ translated' = fromOpenAIChatCompletion(data, dataModel)
  /\ respPc' = "done"
  /\ UNCHANGED <<data, dataModel>>

MaxEnvVars == 3

\* process.env with the variables of S set: to the empty string or to a
\* value of their own
EnvsSetting(S) ==
  {[n \in EnvVars |-> IF n \notin S THEN Undefined
                      ELSE IF f[n] THEN Str(<<n>>) ELSE Str(<<>>)] :
     f \in [S -> BOOLEAN]}

Envs ==
  UNION {EnvsSetting(S) : S \in {T \in SUBSET EnvVars : Cardinality(T) <= MaxEnvVars}}

\* what config.getModel() and config.getProxy() return
GcConfigs ==
  {[model |-> Str(<<"runtime-model">>), proxy |-> Undefined],
   [model |-> Str(<<>>), proxy |-> Str(<<"proxy">>)]}

Selectors == AuthTypes \cup {Undefined, Str(<<"other">>)}

ConfigIdle ==
  /\ env = [n \in EnvVars |-> Undefined]
  /\ gcConfig = None
  /\ authType = Undefined
  /\ cgConfig = None
  /\ generator = None
  /\ cfgPc = "off"

ConfigInit ==
  /\ env \in Envs
  /\ gcConfig \in GcConfigs
  /\ authType \in Selectors
  /\ cgConfig = None
  /\ generator = None
  /\ cfgPc = "start"

ResolveConfig ==
  /\ UNCHANGED notCfgVars
  /\ cfgPc = "start"
  /\ cgConfig' = createContentGeneratorConfig(env, authType, gcConfig.model,
                                              gcConfig.proxy)
  /\ cfgPc' = "resolved"
  /\ UNCHANGED <<env, gcConfig, authType, generator>>

BuildGenerator ==
  /\ UNCHANGED notCfgVars
  /\ cfgPc = "resolved"
  /\ generator' = createContentGenerator(cgConfig)
  /\ cfgPc' = "built"
  /\ UNCHANGED <<env, gcConfig, authType, cgConfig>>

----------------------------------------------------------------------------
(* Specifications *)

Init == PartsIdle /\ MessagesIdle /\ ResponseIdle /\ ConfigIdle /\ CallsIdle

Next ==
  \/ \E c \in CallIds, r \in Requests : CallGenerateContent(c, r)
  \/ \E c \in CallIds, r \in Requests : CallGenerateContentStream(c, r)
  \/ \E c \in CallIds : StreamNextFirst(c)
  \/ \E c \in CallIds, w \in WireResponses : WireRespond(c, w)
  \/ \E c \in CallIds : WireFail(c)
  \/ \E c \in CallIds : SettleGenerateContent(c)
  \/ \E c \in CallIds : SettleStream(c)
  \/ \E c \in CallIds : StreamNextAfterYield(c)
  \/ \E c \in CallIds, r \in Requests : CallCountTokens(c, r)
  \/ \E c \in CallIds, r \in Requests : CallEmbedContent(c, r)
  \/ \E c \in CallIds : NextCall(c)

Spec == Init /\ [][Next]_vars

InitParts == PartsInit /\ MessagesIdle /\ ResponseIdle /\ ConfigIdle /\ CallsIdle
NextParts == PartsToText
SpecParts == InitParts /\ [][NextParts]_vars

InitMessages == PartsIdle /\ MessagesInit /\ ResponseIdle /\ ConfigIdle /\ CallsIdle
NextMessages == ConvertContents
SpecMessages == InitMessages /\ [][NextMessages]_vars

InitResponse == PartsIdle /\ MessagesIdle /\ ResponseInit /\ ConfigIdle /\ CallsIdle
NextResponse == Translate
SpecResponse == InitResponse /\ [][NextResponse]_vars

InitConfig == PartsIdle /\ MessagesIdle /\ ResponseIdle /\ ConfigInit /\ CallsIdle
NextConfig == ResolveConfig \/ BuildGenerator
SpecConfig == InitConfig /\ [][NextConfig]_vars

----------------------------------------------------------------------------
(* Properties *)

\* s contains sub as a contiguous run
Contains(s, sub) ==
  \E i \in 0..(Len(s) - Len(sub)) : SubSeq(s, i + 1, i + Len(sub)) = sub

GenerateKinds == {"generateContent", "generateContentStream"}

\* call c has received a wire response that generateContent translates
Translatable(c) == resp[c] # None /\ Ok(resp[c]) /\ resp[c].json # None

\* C1 (as stated): every consumed generateContentStream ends having yielded
\* exactly one element.
C1_StreamAlwaysYieldsOne ==
  \A c \in CallIds :
    (kind[c] = "generateContentStream" /\ pc[c] = "done") => Len(emitted[c]) = 1

\* C1 (amended): a consumed generateContentStream yields exactly one element
\* and then completes exactly when its wire call is answered with a success
\* status and a JSON body; that element is what generateContent returns for
\* the same request and wire response, and it is emitted only after the wire
\* response has arrived. Otherwise the sequence fails with no element.
C1_StreamOneElementOnSuccess ==
  \A c \in CallIds :
    kind[c] = "generateContentStream" =>
      /\ Len(emitted[c]) <= 1
      /\ emitted[c] # <<>> =>
           /\ pc[c] \in {"yielded", "done"}
           /\ Translatable(c)
           /\ wireCalls[c] = 1
      /\ pc[c] = "yielded" => Len(emitted[c]) = 1
      /\ pc[c] = "done" =>
           /\ Len(emitted[c]) = 1 <=> Translatable(c)
           /\ Len(emitted[c]) = 1 => outcome[c] = Returned(Undefined)
           /\ Len(emitted[c]) = 0 => outcome[c].status = "threw"
      /\ \A d \in CallIds :
           (/\ kind[d] = "generateContent" /\ pc[d] = "done"
            /\ req[d] = req[c] /\ resp[d] = resp[c]
            /\ emitted[c] # <<>>)
           => outcome[d] = Returned(emitted[c][1])

C1_Witness ==
  \E c, d \in CallIds :
    /\ kind[c] = "generateContentStream" /\ pc[c] = "done"
    /\ Len(emitted[c]) = 1
    /\ kind[d] = "generateContent" /\ pc[d] = "done"
    /\ req[d] = req[c] /\ resp[d] = resp[c]
    /\ outcome[d] = Returned(emitted[c][1])
    /\ emitted[c][1].candidates[1].content.parts = <<[text |-> Str(<<"hi">>)]>>

\* C2: a non-success HTTP status makes the call fail with an error whose
\* message contains the status code and the raw body text; nothing is
\* returned or yielded.
C2_WireFailureError ==
  \A c \in CallIds :
    (kind[c] \in GenerateKinds /\ resp[c] # None /\ ~Ok(resp[c])) =>
      /\ emitted[c] = <<>>
      /\ outcome[c] = None \/ outcome[c].status = "threw"
      /\ pc[c] = "done" =>
           /\ outcome[c].status = "threw"
           /\ outcome[c].error.name = "Error"
           /\ Contains(outcome[c].error.message, Digits(resp[c].status))
           /\ Contains(outcome[c].error.message, resp[c].text)
           /\ resp[c].status = 401 =>
                /\ Contains(outcome[c].error.message, <<"4", "0", "1">>)
                /\ Contains(outcome[c].error.message, <<"invalid", " ", "key">>)

C2_Witness ==
  \E c, d \in CallIds :
    /\ kind[c] = "generateContentStream" /\ pc[c] = "done"
    /\ resp[c] # None /\ resp[c].status = 401
    /\ outcome[c].status = "threw" /\ emitted[c] = <<>>
    /\ kind[d] = "generateContent" /\ pc[d] = "done"
    /\ resp[d] # None /\ resp[d].status = 500
    /\ outcome[d].status = "threw"

\* C9: countTokens returns exactly { totalTokens: 0 } and embedContent
\* exactly { embeddings: [] }, whatever the request and whatever the other
\* calls are doing; neither issues a wire call.
C9_Placeholders ==
  \A c \in CallIds :
    /\ kind[c] = "countTokens" =>
         /\ pc[c] = "done"
         /\ outcome[c] = [status |-> "returned", value |-> [totalTokens |-> 0]]
    /\ kind[c] = "embedContent" =>
         /\ pc[c] = "done"
         /\ outcome[c] = [status |-> "returned", value |-> [embeddings |-> <<>>]]
    /\ kind[c] \in {"countTokens", "embedContent"} =>
         wireCalls[c] = 0 /\ wireBody[c] = None /\ resp[c] = None

C9_Witness ==
  \E c, d \in CallIds :
    /\ kind[c] = "countTokens" /\ pc[c] = "done"
    /\ outcome[c].value.totalTokens = 0
    /\ kind[d] = "embedContent" /\ pc[d] = "done"
    /\ outcome[d].value.embeddings = <<>>
    /\ req[c] # req[d]

\* C10: every generateContent call and every consumed generateContentStream
\* has issued exactly one POST to {baseUrl}/chat/completions with
\* stream: false built from its own request, however the calls interleave
\* and however the call ends; two calls with the same request and the same
\* wire response end with the same result.
C10_OneWireCallPerCall ==
  \A c \in CallIds :
    kind[c] \in GenerateKinds =>
      /\ pc[c] = "created" => wireCalls[c] = 0 /\ wireBody[c] = None
      /\ pc[c] # "created" =>
           /\ wireCalls[c] = 1
           /\ wireBody[c].url =
                <<"http:", "/", "/", "host", "/", "v1", "/", "chat", "/", "completions">>
           /\ wireBody[c].method = "POST"
           /\ wireBody[c].body.stream = FALSE
           /\ wireBody[c].body.tools = Undefined
           /\ wireBody[c].body.model =
                (IF "model" \in DOMAIN req[c].v THEN req[c].v.model
                 ELSE Str(<<"default-model">>))
           /\ Len(wireBody[c].body.messages) =
                (IF req[c].v.contents.t = "array"
                   THEN Len(req[c].v.contents.v) ELSE 1)
      /\ \A d \in CallIds :
           (/\ kind[d] \in GenerateKinds
            /\ pc[c] = "done" /\ pc[d] = "done"
            /\ req[c] = req[d] /\ resp[c] = resp[d])
           => /\ outcome[c].status = outcome[d].status
              /\ kind[c] = kind[d] => outcome[c] = outcome[d]
              /\ emitted[c] # <<>> /\ emitted[d] # <<>> => emitted[c] = emitted[d]

C10_Witness ==
  \E c, d \in CallIds :
    /\ c # d
    /\ kind[c] = "generateContent" /\ pc[c] = "done"
    /\ outcome[c].status = "threw" /\ wireCalls[c] = 1
    /\ kind[d] = "generateContentStream" /\ pc[d] = "yielded"
    /\ wireCalls[d] = 1 /\ req[c] # req[d]

\* the text a part carries: a bare string, or its text field when it has one
TextOfPart(p) ==
  IF p.t = "string" THEN p.v
  ELSE IF "text" \in DOMAIN p.v /\ p.v.text.t = "string" THEN p.v.text.v
  ELSE <<>>

\* the non-empty texts of ps, in order, one newline between neighbours
RECURSIVE NewlineJoined(_)
NewlineJoined(ps) ==
  IF ps = <<>> THEN <<>>
  ELSE LET head == TextOfPart(ps[1])
           rest == NewlineJoined(Tail(ps))
       IN IF head = <<>> THEN rest
          ELSE IF rest = <<>> THEN head
          ELSE head \o <<NL>> \o rest

NewlineFree(ps) == \A i \in 1..Len(ps) : ~Contains(TextOfPart(ps[i]), <<NL>>)

\* C6: the wire messages have the length and order of the Contents, and
\* message i has role "assistant" exactly when Content i has role "model",
\* "user" for any other or absent role.
C6_MessagesRoles ==
  msgPc = "done" =>
    /\ Len(messages) = Len(contents)
    /\ \A i \in 1..Len(contents) :
         /\ messages[i].role \in {"assistant", "user"}
         /\ messages[i].role = "assistant" <=>
              ("role" \in DOMAIN contents[i].v
               /\ contents[i].v.role = Str(<<"m","o","d","e","l">>))
         /\ messages[i].content =
              Str(NewlineJoined(IF "parts" \in DOMAIN contents[i].v
                                  THEN contents[i].v.parts.v ELSE <<>>))

C6_Witness ==
  /\ msgPc = "done"
  /\ Len(contents) = 2
  /\ contents[1] = Obj([role |-> Str(ROLE_MODEL), parts |-> Arr(<<TextPart(<<"a">>)>>)])
  /\ contents[2] = Obj([role |-> Str(<<"a","s","s","i","s","t","a","n","t">>)])
  /\ messages = <<[role |-> "assistant", content |-> Str(<<"a">>)],
                  [role |-> "user", content |-> Str(<<>>)]>>

\* C7: the message text is the non-empty part texts in order, joined by
\* single newlines; parts without text or with empty text add nothing, so
\* (for texts that hold no newline themselves) the result has no leading,
\* trailing or doubled newline, and is empty when no part carries text.
C7_PartsText ==
  partsPc = "done" =>
    /\ partsText = Str(NewlineJoined(parts))
    /\ (\A i \in 1..Len(parts) : TextOfPart(parts[i]) = <<>>) <=> partsText.v = <<>>
    /\ NewlineFree(parts) =>
         /\ partsText.v # <<>> =>
              partsText.v[1] # NL /\ partsText.v[Len(partsText.v)] # NL
         /\ ~Contains(partsText.v, <<NL, NL>>)
         /\ Cardinality({i \in 1..Len(partsText.v) : partsText.v[i] = NL}) + 1
              = Cardinality({i \in 1..Len(parts) : TextOfPart(parts[i]) # <<>>})
            \/ partsText.v = <<>>
    /\ parts = <<TextPart(<<"a">>), TextPart(<<>>), TextPart(<<"b">>)>> =>
         partsText = Str(<<"a", NL, "b">>)

C7_Witness ==
  /\ partsPc = "done"
  /\ parts = <<TextPart(<<>>), MediaPart, TextPart(<<"b">>)>>
  /\ partsText = Str(<<"b">>)

\* the first choice's message content of a wire body, when it is a
\* non-empty string
HasText(d) ==
  /\ d.t = "object" /\ "choices" \in DOMAIN d.v
  /\ d.v.choices.t = "array" /\ Len(d.v.choices.v) >= 1
  /\ d.v.choices.v[1].t = "object" /\ "message" \in DOMAIN d.v.choices.v[1].v
  /\ d.v.choices.v[1].v.message.t = "object"
  /\ "content" \in DOMAIN d.v.choices.v[1].v.message.v
  /\ d.v.choices.v[1].v.message.v.content.t = "string"
  /\ d.v.choices.v[1].v.message.v.content.v # <<>>

HasUsage(d, f) ==
  /\ d.t = "object" /\ "usage" \in DOMAIN d.v
  /\ d.v.usage.t = "object" /\ f \in DOMAIN d.v.usage.v

\* C8: translation of any parsed wire body yields exactly one candidate at
\* index 0, with one text part holding the first choice's message content
\* when that is non-empty and no part otherwise; each usageMetadata field is
\* the wire usage field, and undefined (never zero) when that is absent.
C8_Translation ==
  respPc = "done" =>
    /\ translated.modelVersion = dataModel
    /\ Len(translated.candidates) = 1
    /\ translated.candidates[1].index = 0
    /\ translated.candidates[1].content.role = <<"m","o","d","e","l">>
    /\ translated.candidates[1].content.parts =
         (IF HasText(data)
            THEN <<[text |-> data.v.choices.v[1].v.message.v.content]>>
            ELSE <<>>)
    /\ \A f \in {<<"prompt_tokens", "promptTokenCount">>,
                 <<"completion_tokens", "candidatesTokenCount">>,
                 <<"total_tokens", "totalTokenCount">>} :
         translated.usageMetadata[f[2]] =
           (IF HasUsage(data, f[1]) THEN data.v.usage.v[f[1]] ELSE Undefined)

C8_Witness ==
  /\ respPc = "done"
  /\ data = Obj([usage |-> Obj([total_tokens |-> Num(0)])])
  /\ translated.candidates = <<[content |-> [role |-> ROLE_MODEL, parts |-> <<>>],
                                index |-> 0]>>
  /\ translated.usageMetadata.promptTokenCount = Undefined
  /\ translated.usageMetadata.totalTokenCount = Num(0)

\* the environment variables of each OpenAI-wire-compatible family: its key
\* variables in the order they are consulted, its base-URL override and its
\* default base URL
KeyVarsOf(at) ==
  CASE at = Str(<<"openai">>)     -> <<"OPENAI_API_KEY">>
    [] at = Str(<<"openrouter">>) -> <<"OPENROUTER_API_KEY">>
    [] at = Str(<<"deepseek">>)   -> <<"DEEPSEEK_API_KEY">>
    [] at = Str(<<"glm">>)        -> <<"GLM_API_KEY", "ZHIPUAI_API_KEY">>
    [] OTHER                      -> <<>>

UrlVarOf(at) ==
  CASE at = Str(<<"openai">>)     -> "OPENAI_BASE_URL"
    [] at = Str(<<"openrouter">>) -> "OPENROUTER_BASE_URL"
    [] at = Str(<<"deepseek">>)   -> "DEEPSEEK_BASE_URL"
    [] at = Str(<<"glm">>)        -> "GLM_BASE_URL"

DefaultUrlOf(at) ==
  CASE at = Str(<<"openai">>)     ->
         <<"https:", "/", "/", "api.openai.com", "/", "v1">>
    [] at = Str(<<"openrouter">>) ->
         <<"https:", "/", "/", "openrouter.ai", "/", "api", "/", "v1">>
    [] at = Str(<<"deepseek">>)   -> <<"https:", "/", "/", "api.deepseek.com">>
    [] at = Str(<<"glm">>)        ->
         <<"https:", "/", "/", "open.bigmodel.cn", "/", "api", "/", "paas", "/", "v4">>

\* variable n holds a non-empty value
IsSet(n) == env[n].t = "string" /\ env[n].v # <<>>

KeyPresent ==
  \E i \in 1..Len(KeyVarsOf(authType)) : IsSet(KeyVarsOf(authType)[i])

\* the first key variable of the family that is set
FirstKey ==
  LET ks == KeyVarsOf(authType)
      i == CHOOSE j \in 1..Len(ks) : IsSet(ks[j]) /\ \A k \in 1..(j - 1) : ~IsSet(ks[k])
  IN env[ks[i]]

Has(o, f) == f \in DOMAIN o.v

\* C4: the resolved configuration carries a provider exactly when the
\* selector is OpenAI-wire-compatible and that family's key variable is set;
\* then provider is the selector's own family and apiKey and baseUrl are
\* both present and come from that family's variables (or its default URL);
\* otherwise provider and baseUrl are both absent.
C4_NoPartialProvider ==
  cfgPc \in {"resolved", "built"} =>
    /\ Has(cgConfig, "provider") <=> KeyPresent
    /\ Has(cgConfig, "provider") =>
         /\ authType \in OpenAIAuthTypes
         /\ cgConfig.v.provider = authType
         /\ Has(cgConfig, "apiKey") /\ Has(cgConfig, "baseUrl")
         /\ cgConfig.v.apiKey = FirstKey
         /\ cgConfig.v.apiKey.t = "string" /\ cgConfig.v.apiKey.v # <<>>
         /\ cgConfig.v.baseUrl =
              (IF IsSet(UrlVarOf(authType)) THEN env[UrlVarOf(authType)]
               ELSE Str(DefaultUrlOf(authType)))
         /\ cgConfig.v.baseUrl.t = "string" /\ cgConfig.v.baseUrl.v # <<>>
    /\ ~Has(cgConfig, "provider") => ~Has(cgConfig, "baseUrl")
    /\ (authType \in OpenAIAuthTypes /\ ~KeyPresent) =>
         DOMAIN cgConfig.v = {"model", "authType", "proxy"}
    /\ cgConfig.v.authType = authType

C4_Witness ==
  /\ cfgPc = "resolved"
  /\ authType = USE_GLM
  /\ ~IsSet("GLM_API_KEY") /\ IsSet("ZHIPUAI_API_KEY") /\ IsSet("OPENAI_BASE_URL")
  /\ cgConfig.v.provider = USE_GLM
  /\ cgConfig.v.apiKey = Str(<<"ZHIPUAI_API_KEY">>)
  /\ cgConfig.v.baseUrl = Str(DEFAULT_GLM_BASE_URL)

IsUnsupportedAuthTypeError(g) ==
  /\ g.status = "threw"
  /\ g.error.name = "Error"
  /\ Contains(g.error.message, <<"Unsupported authType: ">>)

IsWrapped(g, backend) ==
  /\ g.status = "returned"
  /\ g.value.wrapper = "LoggingContentGenerator"
  /\ g.value.wrapped.backend = backend

\* C3: for every authType, createContentGenerator returns the backend chosen
\* by authType wrapped in LoggingContentGenerator, or fails with the
\* 'Unsupported authType' error when authType names no backend.
C3_WrappedOrUnsupported ==
  cfgPc = "built" =>
    /\ authType \in {LOGIN_WITH_GOOGLE, CLOUD_SHELL} =>
         IsWrapped(generator, "CodeAssist")
    /\ authType \in {USE_GEMINI, USE_VERTEX_AI} =>
         IsWrapped(generator, "GoogleGenAI.models")
    /\ authType \in OpenAIAuthTypes =>
         IsWrapped(generator, "OpenAICompatibleContentGenerator")
    /\ authType \notin AuthTypes => IsUnsupportedAuthTypeError(generator)

\* C5: what createContentGeneratorConfig produces never makes
\* createContentGenerator build an adapter without baseUrl or apiKey; a
\* configuration with an OpenAI-wire-compatible selector and no provider is
\* rejected with the unsupported-selection error.
C5_FallThroughRejected ==
  cfgPc = "built" =>
    /\ IsWrapped(generator, "OpenAICompatibleContentGenerator") =>
         /\ Has(cgConfig, "baseUrl") /\ Has(cgConfig, "apiKey")
         /\ generator.value.wrapped.apiKey.t = "string"
    /\ (authType \in OpenAIAuthTypes /\ ~Has(cgConfig, "provider")) =>
         IsUnsupportedAuthTypeError(generator)

====
